---- MODULE Spec2Model ----
(***************************************************************************)
(* Model of the VideoSplit browser client: the credential store and the    *)
(* session gateway of src/static/auth.js (getToken .. apiJSON), and the    *)
(* upload queue and its pipeline of src/static/admin.js (fileQueue,        *)
(* addToQueue, removeFromQueue, processQueue).                             *)
(*                                                                         *)
(* JavaScript is single-threaded: a handler runs from one await to the     *)
(* next without interleaving, so every action below is one such run.       *)
(* The suspension points of apiFetch are its three fetch calls and the     *)
(* rr.json() read; apiJSON adds the res.json() read.                       *)
(***************************************************************************)
EXTENDS Integers, Sequences, FiniteSets, TLC

\* ---------------------------------------------------------------- bounds
NReq == 2          \* concurrent request slots (callers of the gateway)
MaxTok == 3        \* credential generations the server can issue
MaxSelect == 6     \* files of one selection or drop
MaxIds == 6        \* items ever created on one page, queue alone
PipeSelect == 2    \* files of one selection, with the pipeline running
PipeIds == 2       \* items ever created on one page, with the pipeline
MaxRuns == 2       \* processQueue calls on one page
CapSelect == 3     \* files chosen at once while the profile is fetched
CapIds == 8        \* files enqueued on a page whose profile is fetched
ValIds == 2        \* items ever created on one page, validation alone
BatchIds == 3      \* files of the one batch of the batch specification

\* ------------------------------------------------------------- constants
Req == 1..NReq
NoToken == 0                       \* localStorage.getItem(..) === null
Tokens == 1..MaxTok
NoUser == "none"
Plans == {"free", "starter", "pro", "enterprise"}
StatusOK == 200
StatusUnauth == 401
StatusServerError == 500
DefaultDetail == "Request failed"
AuthPage == "/static/auth.html"
AppPage == "/static/dashboard.html"

\* callers of the gateway
\*   raw    : apiFetch(path) whose caller only looks at the response
\*   json   : apiJSON(path) whose caller only shows the result
\*   init   : init(): apiJSON('/auth/me'), then setCachedUser or logout()
\*   login  : login form: apiJSON('/auth/login'), setTokens, fetchAndCacheUser
\*   me     : fetchAndCacheUser(): apiJSON('/auth/me'), setCachedUser
\*   delete : delete account: apiFetch(DELETE), clearTokens, redirect
Kinds == {"raw", "json", "init", "login", "delete"}
OnceKinds == {"init", "login", "delete"}    \* run once per page load
\* the login form is on the login page, the other callers on the pages
\* behind it (dashboard, admin, upload)
PageKinds(pg) == IF pg = AuthPage THEN {"login"}
                 ELSE {"raw", "json", "init", "delete"}
JsonKinds == {"json", "init", "login", "me"}

VARIABLES
    access,         \* localStorage vs_access_token
    refresh,        \* localStorage vs_refresh_token
    user,           \* localStorage vs_user (cached profile: its plan tier)
    location,       \* window.location.href as last assigned
    page,           \* the page whose scripts are running
    refreshing,     \* _refreshing
    refreshQueue,   \* _refreshQueue
    call,           \* the apiFetch / apiJSON call running in each slot
    cycle,          \* outcome of every refresh call issued so far, in order
    srvAccess,      \* server: the access credential it accepts (0: none)
    srvRefresh,     \* server: the refresh credential it accepts (0: none)
    gen,            \* server: last credential generation issued
    fileQueue,      \* the array fileQueue refers to, as the ids of its items
    item,           \* the item objects some array still holds, by id
    nextId,         \* ids handed out so far (each id is fresh)
    selectedFile,   \* selectedFile
    run,            \* the processQueue call in progress
    splitBtn,       \* splitBtn: disabled, display, textContent
    currentJobId,   \* currentJobId
    shown,          \* what the page shows of a finished job
    cancelled,      \* ids removed while queued and not yet reached by a run
    rendered,       \* what renderQueue last wrote into the page
    xhr             \* the XMLHttpRequest of splitVideo

vars == <<access, refresh, user, location, page, refreshing, refreshQueue,
          call, cycle, srvAccess, srvRefresh, gen,
          fileQueue, item, nextId, selectedFile, run, splitBtn, currentJobId,
          shown, cancelled, rendered, xhr>>

\* the state of the upload page's script
upload == <<fileQueue, item, nextId, selectedFile, run, splitBtn,
            currentJobId, shown, cancelled, rendered, xhr>>

store == <<access, refresh, user>>
server == <<srvAccess, srvRefresh, gen>>

IdleCall ==
    [pc |-> "idle", kind |-> "raw", hdr |-> NoToken, tok1 |-> NoToken,
     sends |-> 0, nref |-> 0, follower |-> FALSE,
     cyc |-> 0, rt |-> NoToken,
     first |-> 0, res |-> 0, redir |-> 0, data |-> NoToken, out |-> "none",
     errStatus |-> 0, errDetail |-> "none"]

\* ------------------------------------------------------ credential store
getToken == access

getRefreshToken == refresh

getCachedUser == user

isLoggedIn == getToken # NoToken

\* setTokens that forgets the refresh credential
setTokens_AccessOnly(accessToken, refreshToken) == <<accessToken, refresh, user>>

\* the three values setTokens leaves in <<access, refresh, user>>
setTokens(accessToken, refreshToken) == <<accessToken, refreshToken, user>>

\* clearTokens that forgets to remove the refresh credential
clearTokens_KeepRefresh == <<NoToken, refresh, NoUser>>

clearTokens == <<NoToken, NoToken, NoUser>>

logout == <<clearTokens, AuthPage>>          \* <<store, location>> after logout()

\* ---------------------------------------------------------------- server
\* statuses the generic authenticated endpoint can answer to a request that
\* carries bearer token tok (NoToken: no Authorization header)
ServerStatuses(kind, tok) ==
    IF kind = "login"
    THEN {StatusUnauth, StatusServerError}
         \cup (IF gen < MaxTok THEN {StatusOK} ELSE {})
    ELSE IF tok # NoToken /\ tok = srvAccess
         THEN {StatusOK, StatusServerError}
         ELSE {StatusUnauth, StatusServerError}

\* the refresh endpoint can accept refresh credential rt
RefreshAcceptable(rt) == rt # NoToken /\ rt = srvRefresh /\ gen < MaxTok

\* bodies a response can carry, as res.json() sees them
Bodies == {"detail", "nodetail", "nonjson"}

\* a call that has ended: its request data (headers, bodies) is gone
Finished(c) == [c EXCEPT !.pc = "done", !.hdr = NoToken, !.rt = NoToken,
                         !.data = NoToken]

\* write the three localStorage keys
SetStore(st) == access' = st[1] /\ refresh' = st[2] /\ user' = st[3]

\* ------------------------------------------------------------ upload queue
\* A file is its name, as the parts file.name.split('.') yields, and its
\* size in bytes.  An item is {id, file, status, result}; ids are the
\* Math.random() strings, taken to be fresh each time.
MAX_FILES_BY_PLAN ==
    [free |-> 1, starter |-> 5, pro |-> 10, enterprise |-> 20]

MaxUploadBytes == 500 * 1024 * 1024

allowed == {"mp4", "mov", "avi", "mkv"}     \* the leading '.' is on both sides

NoFile == [name |-> <<>>, size |-> 0]       \* selectedFile = null
NoJob == 0                                  \* currentJobId = null, no result

\* no request of splitVideo is out
NoXhr == [pc |-> "idle", hdr |-> NoToken]

toLowerCase(s) ==
    CASE s = "MP4" -> "mp4"
      [] s = "Mov" -> "mov"
      [] s = "TXT" -> "txt"
      [] OTHER -> s

\* (file.name.split('.').pop() || '').toLowerCase()
ext(file) == toLowerCase(file.name[Len(file.name)])

\* getCachedUser()?.plan_tier?.toLowerCase() || 'free'
plan == IF getCachedUser = NoUser THEN "free" ELSE getCachedUser

\* MAX_FILES_BY_PLAN[plan] || 1
maxFiles ==
    IF plan \in DOMAIN MAX_FILES_BY_PLAN THEN MAX_FILES_BY_PLAN[plan] ELSE 1

\* a slice that keeps every file
slice_All(files, end) == files

\* Array.prototype.slice(0, end): a negative end counts from the back
slice(files, end) ==
    LET n == Len(files)
        e == IF end < 0 THEN (IF n + end > 0 THEN n + end ELSE 0)
             ELSE IF end < n THEN end ELSE n
    IN SubSeq(files, 1, e)

Range(q) == {q[i] : i \in DOMAIN q}

\* the items of f that the arrays with these ids still hold
Collect(f, ids) == [i \in ids |-> f[i]]

\* a renderQueue that lists the items last first
renderQueue_Reversed(q, it) ==
    [k \in DOMAIN q |->
        LET id == q[Len(q) + 1 - k] IN
        [id |-> id, file |-> it[id].file, status |-> it[id].status]]

\* renderQueue (lines 787-801): one row per item of the array, in array
\* order, with the item's id, file name and size, and status
renderQueue(q, it) ==
    [k \in DOMAIN q |->
        [id |-> q[k], file |-> it[q[k]].file, status |-> it[q[k]].status]]

\* addToQueue (lines 779-785) on st = [q: the array, it: the items, n: next id]
addToQueue(st, file) ==
    IF ext(file) \notin allowed THEN st
    ELSE IF file.size > MaxUploadBytes THEN st
    ELSE [q |-> Append(st.q, st.n),
          it |-> [i \in DOMAIN st.it \cup {st.n} |->
                     IF i = st.n
                     THEN [file |-> file, status |-> "queued", result |-> NoJob]
                     ELSE st.it[i]],
          n |-> st.n + 1]

\* toAdd.forEach(f => addToQueue(f))
RECURSIVE forEach(_, _)
forEach(st, files) ==
    IF files = <<>> THEN st
    ELSE forEach(addToQueue(st, Head(files)), Tail(files))

\* --------------------------------------------------------- upload pipeline
UploadSlot == 1     \* the slot of the apiFetch call processQueue awaits

\* the split button as the page has it before any file is chosen; text <<>>
\* is 'Split Video', <<d, t>> is 'Processing d / t...'
IdleBtn == [disabled |-> FALSE, display |-> FALSE, text |-> <<>>]

IdleRun == [pc |-> "idle", same |-> FALSE, arr |-> <<>>, idx |-> 0,
            done |-> 0, n |-> 0]

\* the array the for-of loop of processQueue iterates: the one fileQueue
\* referred to when the loop began, which is fileQueue itself until
\* removeFromQueue or the clear button assign a new array
RunArr == IF run.same THEN fileQueue ELSE run.arr

\* the loop variable `item`
Current == RunArr[run.idx]

\* a loop that releases the split button after each item
Settle_Release(status, result) ==
    LET d == IF status = "done" THEN run.done + 1 ELSE run.done IN
    /\ item' = [item EXCEPT ![Current] =
                   [@ EXCEPT !.status = status,
                             !.result = IF status = "done" THEN result ELSE @]]
    /\ run' = [run EXCEPT !.pc = "delay", !.done = d]
    /\ splitBtn' = [splitBtn EXCEPT !.text = <<d, Len(fileQueue)>>,
                                    !.disabled = FALSE]
    /\ rendered' = renderQueue(fileQueue, item')
    /\ UNCHANGED <<fileQueue, nextId, selectedFile, xhr, currentJobId, shown,
                   cancelled>>

\* lines 836-845: the upload of the current item has ended with this
\* status; count it, write the progress text, render, start the delay
Settle(status, result) ==
    LET d == IF status = "done" THEN run.done + 1 ELSE run.done IN
    /\ item' = [item EXCEPT ![Current] =
                   [@ EXCEPT !.status = status,
                             !.result = IF status = "done" THEN result ELSE @]]
    /\ run' = [run EXCEPT !.pc = "delay", !.done = d]
    /\ splitBtn' = [splitBtn EXCEPT !.text = <<d, Len(fileQueue)>>]
    /\ rendered' = renderQueue(fileQueue, item')
    /\ UNCHANGED <<fileQueue, nextId, selectedFile, xhr, currentJobId, shown,
                   cancelled>>

\* a loop that marks the item done before it reads the body of the answer
UploadReturned_Early(status) ==
    IF status = StatusOK
    THEN /\ run' = [run EXCEPT !.pc = "json"]
         /\ item' = [item EXCEPT ![Current].status = "done"]
         /\ rendered' = renderQueue(fileQueue, item')
         /\ UNCHANGED <<fileQueue, nextId, selectedFile, xhr, splitBtn,
                        currentJobId, shown, cancelled>>
    ELSE Settle("failed", NoJob)

\* lines 834-841: apiFetch has returned a response to processQueue
UploadReturned(status) ==
    IF status = StatusOK
    THEN /\ run' = [run EXCEPT !.pc = "json"]
         /\ UNCHANGED <<fileQueue, item, nextId, selectedFile, xhr, splitBtn,
                        currentJobId, shown, cancelled, rendered>>
    ELSE Settle("failed", NoJob)

\* a loop without the catch block: the error ends processQueue
UploadThrown_Abort ==
    /\ item' = [item EXCEPT ![Current].status = "failed"]
    /\ run' = [IdleRun EXCEPT !.n = run.n]
    /\ UNCHANGED <<fileQueue, nextId, selectedFile, xhr, splitBtn, currentJobId,
                   shown, cancelled, rendered>>

\* lines 840-842: apiFetch has thrown into processQueue's catch block
UploadThrown == Settle("failed", NoJob)

\* ------------------------------------------------- callers of the gateway
\* apiFetch has returned a response with this status (auth.js:376); the
\* caller runs on to its next await.  c is the call so far, st and loc the
\* store and location left by apiFetch itself.
Returned(r, c, st, loc, status) ==
    LET c1 == [c EXCEPT !.res = status, !.out = "response"] IN
    IF c.kind \in JsonKinds
    THEN /\ call' = [call EXCEPT ![r] = [c1 EXCEPT !.pc = "json"]]
         /\ SetStore(st)
         /\ location' = loc
         /\ UNCHANGED upload
    ELSE IF c.kind = "delete"
    THEN /\ call' = [call EXCEPT ![r] = Finished(c1)]
         /\ SetStore(clearTokens)
         /\ location' = AuthPage
         /\ UNCHANGED upload
    ELSE /\ call' = [call EXCEPT ![r] = Finished(c1)]
         /\ SetStore(st)
         /\ location' = loc
         /\ IF c.kind = "upload" THEN UploadReturned(status)
            ELSE UNCHANGED upload

\* apiFetch or apiJSON has thrown; the caller's catch block runs: init()
\* logs out, the login handler goes on to the dashboard after
\* fetchAndCacheUser() whatever its result, processQueue marks the item
\* failed, the others show a message
Thrown(r, c, st, loc, what) ==
    /\ call' = [call EXCEPT ![r] = Finished([c EXCEPT !.out = what])]
    /\ IF c.kind = "upload" THEN UploadThrown ELSE UNCHANGED upload
    /\ IF c.kind = "init"
       THEN SetStore(logout[1]) /\ location' = logout[2]
       ELSE /\ SetStore(st)
            /\ location' = IF c.kind = "me" THEN AppPage ELSE loc

\* ---------------------------------------------------------------- apiFetch
\* a guard that lets every faulting caller lead
CanLead_Always == TRUE

\* line 347: only a caller that finds no refresh in flight becomes the leader
CanLead == ~refreshing

\* a retry that re-sends with the headers it already has
Retry_OldToken(r, c, st, loc, status) ==
    IF c.hdr # NoToken
    THEN /\ call' = [call EXCEPT ![r] =
                 [c EXCEPT !.pc = "fetch2", !.sends = c.sends + 1]]
         /\ SetStore(st)
         /\ location' = loc
         /\ UNCHANGED upload
    ELSE Returned(r, c, st, loc, status)

\* lines 368-373 "Retry with new token": re-send when an access credential
\* is stored, else hand the response back.  st/loc: store and location now.
Retry(r, c, st, loc, status) ==
    LET newToken == st[1] IN
    IF newToken # NoToken
    THEN /\ call' = [call EXCEPT ![r] =
                 [c EXCEPT !.pc = "fetch2", !.hdr = newToken,
                           !.sends = c.sends + 1]]
         /\ SetStore(st)
         /\ location' = loc
         /\ UNCHANGED upload
    ELSE Returned(r, c, st, loc, status)

\* a gateway that sends the credential it used last when none is stored
Start_Fallback(r, k) ==
    /\ call[r].pc = "idle"
    /\ \A q \in Req : q < r => call[q].pc # "idle"
    /\ k \in PageKinds(page)
    /\ k \in OnceKinds => \A q \in Req : call[q].kind # k
    /\ LET last == IF getToken # NoToken THEN getToken ELSE gen IN
       call' = [call EXCEPT ![r] =
            [IdleCall EXCEPT !.pc = "fetch1", !.kind = k, !.hdr = last,
                             !.tok1 = last, !.sends = 1]]
    /\ UNCHANGED <<store, location, page, refreshing, refreshQueue, cycle,
                   server, upload>>

\* lines 337-343: read the token, build the headers, send the request
Start(r, k) ==
    /\ call[r].pc = "idle"
    /\ \A q \in Req : q < r => call[q].pc # "idle"   \* slots in start order
    /\ k \in PageKinds(page)
    /\ k \in OnceKinds => \A q \in Req : call[q].kind # k
    /\ call' = [call EXCEPT ![r] =
            [IdleCall EXCEPT !.pc = "fetch1", !.kind = k, !.hdr = getToken,
                             !.tok1 = getToken, !.sends = 1]]
    /\ UNCHANGED <<store, location, page, refreshing, refreshQueue, cycle,
                   server, upload>>

\* a leader that sets the flag and then waits for a refresh it never sends
Lead_Park(r, c) ==
    /\ refreshing' = TRUE
    /\ cycle' = Append(cycle, "pending")
    /\ call' = [call EXCEPT ![r] =
            [c EXCEPT !.pc = "parked", !.cyc = Len(cycle) + 1]]
    /\ UNCHANGED <<store, location, upload>>

\* lines 347-354: the leader sets the flag and issues the refresh call
Lead(r, c) ==
    /\ refreshing' = TRUE
    /\ cycle' = Append(cycle, "pending")
    /\ call' = [call EXCEPT ![r] =
            [c EXCEPT !.pc = "refresh", !.nref = c.nref + 1,
                      !.cyc = Len(cycle) + 1, !.rt = getRefreshToken]]
    /\ UNCHANGED <<store, location, upload>>

\* a gateway that logs out itself on a 401 it cannot recover from
PassThrough_Logout(r, c, status) ==
    /\ UNCHANGED <<refreshing, cycle>>
    /\ IF status = StatusUnauth
       THEN Returned(r, [c EXCEPT !.redir = @ + 1], clearTokens, AuthPage, status)
       ELSE Returned(r, c, store, location, status)

\* lines 346, 376: a response that is not a 401 with a refresh credential
\* stored goes back to the caller untouched
PassThrough(r, c, status) ==
    /\ UNCHANGED <<refreshing, cycle>>
    /\ Returned(r, c, store, location, status)

\* a gateway that takes every error response for an expired credential
RecvFirst_AnyError(r) ==
    /\ UNCHANGED page
    /\ call[r].pc = "fetch1"
    /\ \E status \in ServerStatuses(call[r].kind, call[r].hdr) :
         LET issued == call[r].kind = "login" /\ status = StatusOK
             c == [call[r] EXCEPT !.data = IF issued THEN gen + 1 ELSE @,
                                  !.first = status, !.res = status]
         IN
         /\ IF issued
            THEN gen' = gen + 1 /\ srvAccess' = gen + 1 /\ srvRefresh' = gen + 1
            ELSE UNCHANGED server
         /\ IF status # StatusOK /\ getRefreshToken # NoToken
            THEN IF CanLead
                 THEN Lead(r, c)
                 ELSE /\ UNCHANGED <<refreshing, cycle>>
                      /\ Retry(r, [c EXCEPT !.follower = TRUE,
                                            !.cyc = Len(cycle)],
                               store, location, status)
            ELSE PassThrough(r, c, status)
    /\ UNCHANGED refreshQueue

\* lines 343-374: the first response arrives
RecvFirst(r) ==
    /\ UNCHANGED page
    /\ call[r].pc = "fetch1"
    /\ \E status \in ServerStatuses(call[r].kind, call[r].hdr) :
         LET issued == call[r].kind = "login" /\ status = StatusOK
             c == [call[r] EXCEPT !.data = IF issued THEN gen + 1 ELSE @,
                                  !.first = status, !.res = status]
         IN
         /\ IF issued
            THEN gen' = gen + 1 /\ srvAccess' = gen + 1 /\ srvRefresh' = gen + 1
            ELSE UNCHANGED server
         /\ IF status = StatusUnauth /\ getRefreshToken # NoToken
            THEN IF CanLead
                 THEN Lead(r, c)
                 ELSE \* a refresh is in flight: skip the block, retry at once
                      /\ UNCHANGED <<refreshing, cycle>>
                      /\ Retry(r, [c EXCEPT !.follower = TRUE,
                                            !.cyc = Len(cycle)],
                               store, location, status)
            ELSE PassThrough(r, c, status)
    /\ UNCHANGED refreshQueue

\* a gateway that turns a missing response into a server error response
FailFirst_AsResponse(r) ==
    /\ UNCHANGED page
    /\ call[r].pc = "fetch1"
    /\ Returned(r, call[r], store, location, StatusServerError)
    /\ UNCHANGED <<refreshing, refreshQueue, cycle, server>>

\* line 343: the first fetch rejects (no response at all)
FailFirst(r) ==
    /\ UNCHANGED page
    /\ call[r].pc = "fetch1"
    /\ Thrown(r, call[r], store, location, "neterror")
    /\ UNCHANGED <<refreshing, refreshQueue, cycle, server>>

\* a gateway that puts a continuation on the waiter list while the body of
\* the refresh answer is read
RecvRefresh_Register(r) ==
    /\ UNCHANGED page
    /\ call[r].pc = "refresh"
    /\ \E ok \in (IF RefreshAcceptable(call[r].rt) THEN BOOLEAN ELSE {FALSE}) :
         IF ok
         THEN /\ gen' = gen + 1 /\ srvAccess' = gen + 1 /\ srvRefresh' = gen + 1
              /\ call' = [call EXCEPT ![r] =
                      [call[r] EXCEPT !.pc = "rjson", !.data = gen + 1]]
              /\ refreshQueue' = Append(refreshQueue, r)
              /\ UNCHANGED <<store, location, refreshing, cycle, upload>>
         ELSE /\ UNCHANGED server
              /\ refreshing' = FALSE
              /\ refreshQueue' = <<>>
              /\ cycle' = [cycle EXCEPT ![call[r].cyc] = "rejected"]
              /\ Retry(r, [call[r] EXCEPT !.redir = @ + 1],
                       clearTokens, AuthPage, call[r].res)

\* lines 350-367: the refresh endpoint answers.  An ok answer still has its
\* body to be read (line 356); an error answer clears the store, redirects,
\* runs the finally block and falls through to the retry code.
RecvRefresh(r) ==
    /\ UNCHANGED page
    /\ call[r].pc = "refresh"
    /\ \E ok \in (IF RefreshAcceptable(call[r].rt) THEN BOOLEAN ELSE {FALSE}) :
         IF ok
         THEN /\ gen' = gen + 1 /\ srvAccess' = gen + 1 /\ srvRefresh' = gen + 1
              /\ call' = [call EXCEPT ![r] =
                      [call[r] EXCEPT !.pc = "rjson", !.data = gen + 1]]
              /\ UNCHANGED <<store, location, refreshing, refreshQueue, cycle,
                             upload>>
         ELSE /\ UNCHANGED server
              /\ refreshing' = FALSE
              /\ refreshQueue' = <<>>
              /\ cycle' = [cycle EXCEPT ![call[r].cyc] = "rejected"]
              /\ Retry(r, [call[r] EXCEPT !.redir = @ + 1],
                       clearTokens, AuthPage, call[r].res)

\* a refresh whose network error is handled like a rejection
FailRefresh_Logout(r) ==
    /\ UNCHANGED page
    /\ call[r].pc = "refresh"
    /\ refreshing' = FALSE
    /\ refreshQueue' = <<>>
    /\ cycle' = [cycle EXCEPT ![call[r].cyc] = "threw"]
    /\ Retry(r, [call[r] EXCEPT !.redir = @ + 1], clearTokens, AuthPage,
             call[r].res)
    /\ UNCHANGED server

\* line 350: the refresh fetch rejects; only the finally block runs and the
\* error leaves apiFetch
FailRefresh(r) ==
    /\ UNCHANGED page
    /\ call[r].pc = "refresh"
    /\ refreshing' = FALSE
    /\ refreshQueue' = <<>>
    /\ cycle' = [cycle EXCEPT ![call[r].cyc] = "threw"]
    /\ Thrown(r, call[r], store, location, "neterror")
    /\ UNCHANGED server

\* a refresh block without finally: a body that cannot be read leaves the
\* flag set
RecvRefreshBody_KeepFlag(r) ==
    /\ UNCHANGED page
    /\ call[r].pc = "rjson"
    /\ UNCHANGED server
    /\ \E readable \in BOOLEAN :
         IF readable
         THEN /\ refreshing' = FALSE
              /\ refreshQueue' = <<>>
              /\ cycle' = [cycle EXCEPT ![call[r].cyc] = "ok"]
              /\ Retry(r, call[r], setTokens(call[r].data, call[r].data),
                       location, call[r].res)
         ELSE /\ UNCHANGED <<refreshing, refreshQueue>>
              /\ cycle' = [cycle EXCEPT ![call[r].cyc] = "threw"]
              /\ Thrown(r, call[r], store, location, "syntaxerror")

\* lines 356-373: the body of the ok refresh answer has been read (or the
\* read fails): store the new pair, release the waiters, finally, retry
RecvRefreshBody(r) ==
    /\ UNCHANGED page
    /\ call[r].pc = "rjson"
    /\ refreshing' = FALSE
    /\ refreshQueue' = <<>>
    /\ UNCHANGED server
    /\ \E readable \in BOOLEAN :
         IF readable
         THEN /\ cycle' = [cycle EXCEPT ![call[r].cyc] = "ok"]
              /\ Retry(r, call[r], setTokens(call[r].data, call[r].data),
                       location, call[r].res)
         ELSE /\ cycle' = [cycle EXCEPT ![call[r].cyc] = "threw"]
              /\ Thrown(r, call[r], store, location, "syntaxerror")

\* a replay whose 401 starts the recovery again
RecvReplay_Loop(r) ==
    /\ UNCHANGED page
    /\ call[r].pc = "fetch2"
    /\ UNCHANGED <<refreshQueue, server>>
    /\ \E status \in ServerStatuses(call[r].kind, call[r].hdr) \ {StatusOK} :
         IF status = StatusUnauth /\ getRefreshToken # NoToken /\ CanLead
         THEN Lead(r, [call[r] EXCEPT !.res = status])
         ELSE PassThrough(r, call[r], status)

\* lines 372-376: the response to the re-sent request is returned as it is
RecvReplay(r) ==
    /\ UNCHANGED page
    /\ call[r].pc = "fetch2"
    /\ \E status \in ServerStatuses(call[r].kind, call[r].hdr) :
         LET issued == call[r].kind = "login" /\ status = StatusOK
             c == [call[r] EXCEPT !.data = IF issued THEN gen + 1 ELSE @]
         IN
         /\ IF issued
            THEN gen' = gen + 1 /\ srvAccess' = gen + 1 /\ srvRefresh' = gen + 1
            ELSE UNCHANGED server
         /\ Returned(r, c, store, location, status)
    /\ UNCHANGED <<refreshing, refreshQueue, cycle>>

\* line 372: the re-sent fetch rejects
FailReplay(r) ==
    /\ UNCHANGED page
    /\ call[r].pc = "fetch2"
    /\ Thrown(r, call[r], store, location, "neterror")
    /\ UNCHANGED <<refreshing, refreshQueue, cycle, server>>

\* ----------------------------------------------------------------- apiJSON
\* line 382: the detail of the thrown value
ErrorDetail(body) == IF body = "detail" THEN "server detail" ELSE DefaultDetail

\* lines 381-383 and the caller's continuation: the body is parsed; a body
\* that is not JSON makes res.json() reject, a non-ok status throws
\* {status, detail}, otherwise the data goes to the caller
RecvBody(r) ==
    /\ UNCHANGED page
    /\ call[r].pc = "json"
    /\ UNCHANGED <<refreshing, refreshQueue, cycle, server>>
    /\ \E body \in Bodies :
         LET c == call[r] IN
         IF body = "nonjson"
         THEN Thrown(r, c, store, location, "syntaxerror")
         ELSE IF c.res # StatusOK
         THEN Thrown(r, [c EXCEPT !.errStatus = c.res,
                                  !.errDetail = ErrorDetail(body)],
                     store, location, "typed")
         ELSE CASE c.kind = "login" ->
                   \* setTokens(data...), then fetchAndCacheUser()
                   /\ call' = [call EXCEPT ![r] =
                           [IdleCall EXCEPT !.pc = "fetch1", !.kind = "me",
                                            !.hdr = c.data, !.tok1 = c.data,
                                            !.sends = 1]]
                   /\ SetStore(setTokens(c.data, c.data))
                   /\ UNCHANGED <<location, upload>>
              [] c.kind \in {"init", "me"} ->
                   \* setCachedUser(user)
                   /\ call' = [call EXCEPT ![r] =
                           Finished([c EXCEPT !.out = "data"])]
                   /\ \E p \in Plans : user' = p
                   /\ location' = IF c.kind = "me" THEN AppPage ELSE location
                   /\ UNCHANGED <<access, refresh, upload>>
              [] OTHER ->
                   /\ call' = [call EXCEPT ![r] =
                           Finished([c EXCEPT !.out = "data"])]
                   /\ UNCHANGED <<store, location, upload>>

\* ------------------------------------------------------------- environment
\* the logout button (auth.js:539)
Logout ==
    /\ UNCHANGED page
    /\ page = AppPage
    /\ SetStore(logout[1])
    /\ location' = logout[2]
    /\ UNCHANGED <<refreshing, refreshQueue, call, cycle, server, upload>>

\* a pending navigation completes: the scripts of the old page stop, its
\* requests are dropped, and the new page starts with fresh module state;
\* the login page sends a logged-in visitor on (auth.js:4-6), the other
\* pages send a visitor without a token back (requireAuth, auth.js:304-310)
Load ==
    /\ location # page
    /\ page' = location
    /\ location' = IF location = AuthPage /\ isLoggedIn THEN AppPage
                   ELSE IF location = AppPage /\ ~isLoggedIn THEN AuthPage
                   ELSE location
    /\ refreshing' = FALSE
    /\ refreshQueue' = <<>>
    /\ call' = [r \in Req |-> IdleCall]
    /\ cycle' = <<>>
    /\ fileQueue' = <<>>
    /\ item' = <<>>
    /\ nextId' = 1
    /\ selectedFile' = NoFile
    /\ run' = IdleRun
    /\ splitBtn' = IdleBtn
    /\ currentJobId' = NoJob
    /\ shown' = "upload"
    /\ cancelled' = {}
    /\ rendered' = <<>>
    /\ xhr' = NoXhr
    /\ UNCHANGED <<store, server>>

\* the server lets the access credential expire
Expire ==
    /\ UNCHANGED page
    /\ srvAccess # NoToken
    /\ srvAccess' = NoToken
    /\ UNCHANGED <<store, location, refreshing, refreshQueue, call, cycle,
                   srvRefresh, gen, upload>>

\* ------------------------------------------------------------- upload page
gateway == <<store, location, page, refreshing, refreshQueue, call, cycle,
             server>>

\* the upload page and its controls are in use
OnUpload == page = AppPage /\ shown = "upload"

\* handleFileSelect (lines 414-440)
handleFileSelect(file) ==
    IF ext(file) \notin allowed \/ file.size > MaxUploadBytes
    THEN /\ shown' = "error"                          \* showError(..)
         /\ UNCHANGED <<selectedFile, splitBtn>>
    ELSE /\ selectedFile' = file
         /\ splitBtn' = [splitBtn EXCEPT !.display = TRUE]
         /\ UNCHANGED shown

\* lines 293-302 and 323-329: the files go to the queue or, a single file
\* or a plan of one file, to handleFileSelect.  maxIds bounds the ids.
SelectFiles(files, maxIds) ==
    /\ OnUpload
    /\ files # <<>>
    /\ IF Len(files) > 1 /\ maxFiles > 1
       THEN LET toAdd == slice(files, maxFiles - Len(fileQueue))
                st == forEach([q |-> fileQueue, it |-> item, n |-> nextId],
                              toAdd)
            IN /\ st.n - 1 <= maxIds
               /\ fileQueue' = st.q
               /\ item' = st.it
               /\ nextId' = st.n
               /\ rendered' = renderQueue(st.q, st.it)
               /\ splitBtn' = [splitBtn EXCEPT !.display = TRUE]
               /\ UNCHANGED <<selectedFile, shown>>
       ELSE /\ handleFileSelect(files[1])
            /\ UNCHANGED <<fileQueue, item, nextId, rendered>>
    /\ UNCHANGED <<run, currentJobId, cancelled, xhr, gateway>>

\* fileInput change handler (lines 288-306)
Change(files, maxIds) == SelectFiles(files, maxIds)

\* drop handler (lines 318-333)
Drop(files, maxIds) == SelectFiles(files, maxIds)

\* the running loop keeps the array it began with when fileQueue is
\* assigned a new one
Detach == IF run.pc # "idle" /\ run.same
          THEN [run EXCEPT !.same = FALSE, !.arr = fileQueue]
          ELSE run

\* the pipeline has yet to reach the item with this id
Ahead(id) == /\ run.pc # "idle"
             /\ \E k \in DOMAIN RunArr : k > run.idx /\ RunArr[k] = id

\* a removal that drops the last item whatever the id
RemoveFromQueue_Last(id) ==
    /\ OnUpload
    /\ id \in Range(fileQueue) \cup {0}
    /\ fileQueue' = SubSeq(fileQueue, 1, Len(fileQueue) - 1)
    /\ run' = Detach
    /\ item' = Collect(item, Range(fileQueue') \cup Range(RunArr))
    /\ rendered' = renderQueue(fileQueue', item')
    /\ splitBtn' = IF fileQueue' = <<>>
                   THEN [splitBtn EXCEPT !.display = FALSE] ELSE splitBtn
    /\ UNCHANGED <<nextId, selectedFile, xhr, currentJobId, shown, cancelled,
                   gateway>>

\* removeFromQueue (lines 803-810); id 0 is an id no item has
RemoveFromQueue(id) ==
    /\ OnUpload
    /\ id \in Range(fileQueue) \cup {0}
    /\ fileQueue' = SelectSeq(fileQueue, LAMBDA i : i # id)
    /\ run' = Detach
    /\ item' = Collect(item, Range(fileQueue') \cup Range(RunArr))
    /\ rendered' = renderQueue(fileQueue', item')
    /\ splitBtn' = IF fileQueue' = <<>>
                   THEN [splitBtn EXCEPT !.display = FALSE] ELSE splitBtn
    /\ cancelled' = IF id \in Range(fileQueue) /\ item[id].status = "queued"
                       /\ Ahead(id)
                    THEN cancelled \cup {id} ELSE cancelled
    /\ UNCHANGED <<nextId, selectedFile, xhr, currentJobId, shown, gateway>>

\* clearQueueBtn click handler (lines 874-879)
ClearQueue ==
    /\ OnUpload
    /\ fileQueue # <<>>
    /\ fileQueue' = <<>>
    /\ run' = Detach
    /\ item' = Collect(item, Range(RunArr))
    /\ rendered' = renderQueue(fileQueue', item')
    /\ splitBtn' = [splitBtn EXCEPT !.display = FALSE]
    /\ UNCHANGED <<nextId, selectedFile, xhr, currentJobId, shown, cancelled,
                   gateway>>

\* resetUpload (lines 442-453), from "split another" or the remove-file
\* button
ResetUpload ==
    /\ page = AppPage
    /\ shown = "results" \/ (shown = "upload" /\ selectedFile # NoFile)
    /\ selectedFile' = NoFile
    /\ currentJobId' = NoJob
    /\ splitBtn' = [splitBtn EXCEPT !.display = FALSE]
    /\ shown' = "upload"
    /\ UNCHANGED <<fileQueue, item, nextId, run, cancelled, rendered,
                   xhr, gateway>>

\* tryAgainBtn click handler (lines 361-363)
TryAgain ==
    /\ page = AppPage
    /\ shown = "error"
    /\ shown' = "upload"
    /\ UNCHANGED <<fileQueue, item, nextId, selectedFile, xhr, run, splitBtn,
                   currentJobId, cancelled, rendered, gateway>>

\* a loop that sends the request before it renders the new status
StartItem_NoRender(k, arr) ==
    /\ item' = [item EXCEPT ![arr[k]].status = "uploading"]
    /\ UNCHANGED rendered
    /\ cycle' = <<>>
    /\ call' = [call EXCEPT ![UploadSlot] =
            [IdleCall EXCEPT !.pc = "fetch1", !.kind = "upload",
                             !.hdr = getToken, !.tok1 = getToken,
                             !.sends = 1]]

\* lines 818-819, 834: the loop takes the item at position k of array arr:
\* mark it uploading, render, call apiFetch (which runs up to its first
\* fetch).  The call takes the slot of the upload before it, whose refresh
\* calls leave the record with it.
StartItem(k, arr) ==
    /\ item' = [item EXCEPT ![arr[k]].status = "uploading"]
    /\ rendered' = renderQueue(fileQueue, item')
    /\ cycle' = <<>>
    /\ call' = [call EXCEPT ![UploadSlot] =
            [IdleCall EXCEPT !.pc = "fetch1", !.kind = "upload",
                             !.hdr = getToken, !.tok1 = getToken,
                             !.sends = 1]]

\* a processQueue that leaves the split button enabled
processQueue_Enabled ==
    /\ run.n < MaxRuns
    /\ splitBtn' = [splitBtn EXCEPT !.text = <<0, Len(fileQueue)>>]
    /\ run' = [pc |-> "fetch", same |-> TRUE, arr |-> <<>>, idx |-> 1,
               done |-> 0, n |-> run.n + 1]
    /\ StartItem(1, fileQueue)
    /\ UNCHANGED <<fileQueue, nextId, selectedFile, xhr, currentJobId, shown,
                   cancelled>>
    /\ UNCHANGED <<store, location, page, refreshing, refreshQueue, server>>

\* processQueue up to its first await (lines 812-834)
processQueue ==
    /\ run.n < MaxRuns
    /\ splitBtn' = [splitBtn EXCEPT !.disabled = TRUE,
                                    !.text = <<0, Len(fileQueue)>>]
    /\ run' = [pc |-> "fetch", same |-> TRUE, arr |-> <<>>, idx |-> 1,
               done |-> 0, n |-> run.n + 1]
    /\ StartItem(1, fileQueue)
    /\ UNCHANGED <<fileQueue, nextId, selectedFile, xhr, currentJobId, shown,
                   cancelled>>
    /\ UNCHANGED <<store, location, page, refreshing, refreshQueue, server>>

\* splitVideo up to xhr.send (lines 467-579): the request does not go
\* through apiFetch; it carries the stored access credential, if any
splitVideo ==
    /\ shown' = "processing"
    /\ xhr' = [pc |-> "sent", hdr |-> getToken]
    /\ UNCHANGED <<fileQueue, item, nextId, selectedFile, run, splitBtn,
                   currentJobId, cancelled, rendered, gateway>>

\* splitBtn click handler (lines 347-353); a disabled or hidden button
\* gets no click
SplitClick ==
    /\ OnUpload
    /\ splitBtn.display /\ ~splitBtn.disabled
    /\ IF Len(fileQueue) > 0 THEN processQueue
       ELSE selectedFile # NoFile /\ splitVideo

\* xhr load handler (lines 551-567): a 200 whose body parses shows the
\* results (one that does not parse throws inside the handler and leaves
\* the page as it is); every other status is shown as an error
XhrLoad(status) ==
    /\ page = AppPage
    /\ xhr.pc = "sent"
    /\ status \in ServerStatuses("upload", xhr.hdr)
    /\ xhr' = NoXhr
    /\ IF status = StatusOK
       THEN \E readable \in BOOLEAN :
              IF readable
              THEN currentJobId' = nextId /\ shown' = "results"
              ELSE UNCHANGED <<currentJobId, shown>>
       ELSE shown' = "error" /\ UNCHANGED currentJobId
    /\ UNCHANGED <<fileQueue, item, nextId, selectedFile, run, splitBtn,
                   cancelled, rendered, gateway>>

\* xhr error handler (lines 570-572): no response
XhrError ==
    /\ page = AppPage
    /\ xhr.pc = "sent"
    /\ xhr' = NoXhr
    /\ shown' = "error"
    /\ UNCHANGED <<fileQueue, item, nextId, selectedFile, run, splitBtn,
                   currentJobId, cancelled, rendered, gateway>>

\* ---------------------------------------------- the page without accounts
\* The script of the upload page that has neither queue nor sign-in
\* (src/unnamed/part_000): one file, sent without credential.  A file
\* carries its MIME type here, as the parts type.split('/') yields.
startsWith_Video(type) == Len(type) >= 2 /\ type[1] = "video"

\* handleFileSelect (part_000 lines 171-195)
PlainHandleFileSelect(file) ==
    IF ~startsWith_Video(file.type)
    THEN /\ shown' = "error"                          \* showError(..)
         /\ UNCHANGED <<selectedFile, splitBtn>>
    ELSE IF file.size > 500 * 1024 * 1024
    THEN /\ shown' = "error"
         /\ UNCHANGED <<selectedFile, splitBtn>>
    ELSE /\ selectedFile' = file
         /\ splitBtn' = [splitBtn EXCEPT !.display = TRUE]
         /\ UNCHANGED shown

\* change and drop handlers (part_000 lines 67-72, 84-91)
PlainSelect(file) ==
    /\ OnUpload
    /\ PlainHandleFileSelect(file)
    /\ UNCHANGED <<fileQueue, item, nextId, run, currentJobId, cancelled,
                   rendered, xhr, gateway>>

\* splitBtn click handler and splitVideo up to xhr.send (part_000 lines
\* 106-110, 214-287): no Authorization header is set
PlainSplitClick ==
    /\ OnUpload
    /\ splitBtn.display
    /\ selectedFile # NoFile
    /\ shown' = "processing"
    /\ xhr' = [pc |-> "sent", hdr |-> NoToken]
    /\ UNCHANGED <<fileQueue, item, nextId, selectedFile, run, splitBtn,
                   currentJobId, cancelled, rendered, gateway>>

\* xhr load handler (part_000 lines 269-278): a 200 whose body parses
\* shows the results; anything else throws inside the handler, out of
\* reach of splitVideo's catch, and the page stays as it is
PlainXhrLoad(status) ==
    /\ page = AppPage
    /\ xhr.pc = "sent"
    /\ xhr' = NoXhr
    /\ \E readable \in BOOLEAN :
         IF status = StatusOK /\ readable
         THEN currentJobId' = nextId /\ shown' = "results"
         ELSE UNCHANGED <<currentJobId, shown>>
    /\ UNCHANGED <<fileQueue, item, nextId, selectedFile, run, splitBtn,
                   cancelled, rendered, gateway>>

\* xhr error handler (part_000 lines 281-283): it throws, nothing is shown
PlainXhrError ==
    /\ page = AppPage
    /\ xhr.pc = "sent"
    /\ xhr' = NoXhr
    /\ UNCHANGED <<fileQueue, item, nextId, selectedFile, run, splitBtn,
                   currentJobId, shown, cancelled, rendered, gateway>>

\* a loop without the catch block: a body that cannot be read ends
\* processQueue where it stands
UploadBody_NoCatch ==
    /\ run.pc = "json"
    /\ \E readable \in BOOLEAN :
         IF readable THEN Settle("done", Current)
         ELSE /\ run' = [IdleRun EXCEPT !.n = run.n]
              /\ UNCHANGED <<fileQueue, item, nextId, selectedFile, xhr,
                             splitBtn, currentJobId, shown, cancelled,
                             rendered>>
    /\ UNCHANGED gateway

\* lines 836-839: res.json() of an ok upload response resolves (the job of
\* the item is described by the item's id) or rejects
UploadBody ==
    /\ run.pc = "json"
    /\ \E readable \in BOOLEAN :
         IF readable THEN Settle("done", Current)
         ELSE Settle("failed", NoJob)
    /\ UNCHANGED gateway

\* a loop end that shows the last done item
NextItem_LastSuccess ==
    /\ run.pc = "delay"
    /\ IF run.idx < Len(RunArr)
       THEN /\ run' = [run EXCEPT !.pc = "fetch", !.idx = @ + 1]
            /\ StartItem(run.idx + 1, RunArr)
            /\ UNCHANGED <<fileQueue, nextId, selectedFile, xhr, splitBtn,
                           currentJobId, shown, cancelled>>
       ELSE LET dn == {k \in DOMAIN fileQueue :
                          item[fileQueue[k]].status = "done"}
                firstSuccess ==
                    fileQueue[CHOOSE k \in dn : \A j \in dn : k >= j]
            IN /\ run' = [IdleRun EXCEPT !.n = run.n]
               /\ splitBtn' = [splitBtn EXCEPT !.disabled = FALSE,
                                               !.text = <<>>]
               /\ IF dn # {}
                  THEN /\ currentJobId' = item[firstSuccess].result
                       /\ shown' = "results"
                  ELSE /\ shown' = "error"
                       /\ UNCHANGED currentJobId
               /\ item' = Collect(item, Range(fileQueue))
               /\ cancelled' = {}
               /\ UNCHANGED <<fileQueue, nextId, selectedFile, xhr, call, cycle,
                              rendered>>
    /\ UNCHANGED <<store, location, page, refreshing, refreshQueue, server>>

\* lines 845-856: the delay is over; the loop goes to the next item of its
\* array or, at the end, the button is released and the first done item of
\* fileQueue is shown
NextItem ==
    /\ run.pc = "delay"
    /\ IF run.idx < Len(RunArr)
       THEN /\ run' = [run EXCEPT !.pc = "fetch", !.idx = @ + 1]
            /\ StartItem(run.idx + 1, RunArr)
            /\ UNCHANGED <<fileQueue, nextId, selectedFile, xhr, splitBtn,
                           currentJobId, shown, cancelled>>
       ELSE LET dn == {k \in DOMAIN fileQueue :
                          item[fileQueue[k]].status = "done"}
                firstSuccess ==
                    fileQueue[CHOOSE k \in dn : \A j \in dn : k <= j]
            IN /\ run' = [IdleRun EXCEPT !.n = run.n]
               /\ splitBtn' = [splitBtn EXCEPT !.disabled = FALSE,
                                               !.text = <<>>]
               /\ IF dn # {}
                  THEN /\ currentJobId' = item[firstSuccess].result
                       /\ shown' = "results"
                  ELSE /\ shown' = "error"
                       /\ UNCHANGED currentJobId
               /\ item' = Collect(item, Range(fileQueue))
               /\ cancelled' = {}
               /\ UNCHANGED <<fileQueue, nextId, selectedFile, xhr, call, cycle,
                              rendered>>
    /\ UNCHANGED <<store, location, page, refreshing, refreshQueue, server>>

\* ------------------------------------------------------------ specification
\* the upload page as its script leaves it (lines 222-224, 890)
InitUpload ==
    /\ fileQueue = <<>>
    /\ item = <<>>
    /\ nextId = 1
    /\ selectedFile = NoFile
    /\ run = IdleRun
    /\ splitBtn = IdleBtn
    /\ currentJobId = NoJob
    /\ shown = "upload"
    /\ cancelled = {}
    /\ rendered = <<>>
    /\ xhr = NoXhr

Init ==
    /\ \E t \in {NoToken, 1} : access = t /\ refresh = t
    /\ user \in {NoUser, "free"}
    /\ (access = NoToken) => (user = NoUser)
    /\ page = IF access = NoToken THEN AuthPage ELSE AppPage
    /\ location = page
    /\ refreshing = FALSE
    /\ refreshQueue = <<>>
    /\ call = [r \in Req |-> IdleCall]
    /\ cycle = <<>>
    /\ srvAccess = 1
    /\ srvRefresh = 1
    /\ gen = 1
    /\ InitUpload

Next ==
    \/ \E r \in Req, k \in Kinds : Start(r, k)
    \/ \E r \in Req : RecvFirst(r)
    \/ \E r \in Req : FailFirst(r)
    \/ \E r \in Req : RecvRefresh(r)
    \/ \E r \in Req : FailRefresh(r)
    \/ \E r \in Req : RecvRefreshBody(r)
    \/ \E r \in Req : RecvReplay(r)
    \/ \E r \in Req : FailReplay(r)
    \/ \E r \in Req : RecvBody(r)
    \/ Logout
    \/ Load
    \/ Expire

Spec == Init /\ [][Next]_vars

\* every network call of the page is answered or fails (each fetch settles)
Respond(r) ==
    \/ RecvFirst(r) \/ FailFirst(r)
    \/ RecvRefresh(r) \/ FailRefresh(r) \/ RecvRefreshBody(r)
    \/ RecvReplay(r) \/ FailReplay(r)

\* the gateway with every network call answered or failed
FairSpec == Spec /\ \A r \in Req : WF_vars(Respond(r))

\* files offered to the handlers
GoodFile == [name |-> <<"clip", "mp4">>, size |-> 1000]
BadFile == [name |-> <<"notes", "txt">>, size |-> 1000]
Names == {<<"clip", "mp4">>, <<"CLIP", "MP4">>, <<"clip", "Mov">>,
          <<"clip", "avi">>, <<"clip", "mkv">>, <<"notes", "txt">>,
          <<"clip", "mp4", "txt">>, <<"notes", "TXT", "mp4">>,
          <<"clip", "">>, <<"clip">>, <<"mkv">>}
Sizes == {0, MaxUploadBytes - 1, MaxUploadBytes, MaxUploadBytes + 1}
Files == [name : Names, size : Sizes]

\* the selections of 1..n files drawn from S
Selections(S, n) == UNION {[1..k -> S] : k \in 1..n}

\* a signed-in visitor on the upload page, nothing chosen yet
InitPage ==
    /\ access = 1 /\ refresh = 1
    /\ page = AppPage
    /\ location = page
    /\ refreshing = FALSE
    /\ refreshQueue = <<>>
    /\ call = [r \in Req |-> IdleCall]
    /\ cycle = <<>>
    /\ srvAccess = 1
    /\ srvRefresh = 1
    /\ gen = 1
    /\ InitUpload

\* the queue alone: selections, drops, removals, clears
InitQueue == InitPage /\ user \in {NoUser} \cup Plans

NextQueue ==
    \/ \E files \in Selections({GoodFile, BadFile}, MaxSelect) :
          Change(files, MaxIds)
    \/ \E files \in Selections({GoodFile, BadFile}, MaxSelect) :
          Drop(files, MaxIds)
    \/ \E id \in 0..MaxIds : RemoveFromQueue(id)
    \/ ClearQueue
    \/ ResetUpload
    \/ TryAgain

SpecQueue == InitQueue /\ [][NextQueue]_vars

\* the validation of one or two files of every kind
InitValidate == InitPage /\ user \in {"free", "starter"}

\* one file of any kind, alone or next to a good one
Probes == {<<f>> : f \in Files} \cup {<<f, GoodFile>> : f \in Files}
              \cup {<<GoodFile, f>> : f \in Files}

NextValidate ==
    \/ \E files \in Probes : Change(files, ValIds)
    \/ \E files \in Probes : Drop(files, ValIds)
    \/ \E id \in 0..ValIds : RemoveFromQueue(id)
    \/ ResetUpload
    \/ TryAgain

SpecValidate == InitValidate /\ [][NextValidate]_vars

\* the queue with its pipeline and the gateway under it
InitPipeline == InitPage /\ user \in {"free", "starter"}

NextPipeline ==
    \/ \E files \in Selections({GoodFile, BadFile}, PipeSelect) :
          Change(files, PipeIds)
    \/ \E files \in Selections({GoodFile, BadFile}, PipeSelect) :
          Drop(files, PipeIds)
    \/ \E id \in 0..PipeIds : RemoveFromQueue(id)
    \/ ClearQueue
    \/ ResetUpload
    \/ TryAgain
    \/ SplitClick
    \/ \E status \in {StatusOK, StatusUnauth, StatusServerError} :
          XhrLoad(status)
    \/ XhrError
    \/ UploadBody
    \/ NextItem
    \/ \E r \in Req : RecvFirst(r)
    \/ \E r \in Req : FailFirst(r)
    \/ \E r \in Req : RecvRefresh(r)
    \/ \E r \in Req : FailRefresh(r)
    \/ \E r \in Req : RecvRefreshBody(r)
    \/ \E r \in Req : RecvReplay(r)
    \/ \E r \in Req : FailReplay(r)
    \/ Load
    \/ Expire

SpecPipeline == InitPipeline /\ [][NextPipeline]_vars

\* the pipeline with its awaits settling: the network answers or fails,
\* res.json() resolves or rejects, the 500 ms timer fires
FairPipeline ==
    /\ SpecPipeline
    /\ \A r \in Req : WF_vars(Respond(r))
    /\ WF_vars(UploadBody)
    /\ WF_vars(NextItem)

\* the queue while init() fetches the profile: the page starts with the
\* profile cached by an earlier visit, and the answer of /auth/me replaces
\* it (auth.js:481-484) whenever it arrives
InitCapacity == InitPage /\ user \in {"starter", "pro"}

NextCapacity ==
    \/ \E files \in Selections({GoodFile}, CapSelect) : Change(files, CapIds)
    \/ \E files \in Selections({GoodFile}, CapSelect) : Drop(files, CapIds)
    \/ \E id \in 1..CapIds : RemoveFromQueue(id)
    \/ ClearQueue
    \/ Start(1, "init")
    \/ RecvFirst(1)
    \/ FailFirst(1)
    \/ RecvBody(1)
    \/ Load

SpecCapacity == InitCapacity /\ [][NextCapacity]_vars

\* one batch of three files and the runs over it
ThreeFiles == [k \in 1..BatchIds |-> GoodFile]

InitBatch == InitPage /\ user = "starter"

NextBatch ==
    \/ Drop(ThreeFiles, BatchIds)
    \/ \E id \in 1..BatchIds : RemoveFromQueue(id)
    \/ ResetUpload
    \/ TryAgain
    \/ SplitClick
    \/ UploadBody
    \/ NextItem
    \/ \E r \in Req : RecvFirst(r)
    \/ \E r \in Req : FailFirst(r)
    \/ \E r \in Req : RecvRefresh(r)
    \/ \E r \in Req : FailRefresh(r)
    \/ \E r \in Req : RecvRefreshBody(r)
    \/ \E r \in Req : RecvReplay(r)
    \/ \E r \in Req : FailReplay(r)
    \/ Load
    \/ Expire

SpecBatch == InitBatch /\ [][NextBatch]_vars

\* the page without accounts: files of every name, size and MIME type
Types == {<<"video", "mp4">>, <<"video", "webm">>, <<"video">>,
          <<"text", "plain">>, <<>>}
TypedFiles == [name : Names, size : Sizes, type : Types]

InitPlain ==
    /\ access = NoToken /\ refresh = NoToken /\ user = NoUser
    /\ page = AppPage
    /\ location = page
    /\ refreshing = FALSE
    /\ refreshQueue = <<>>
    /\ call = [r \in Req |-> IdleCall]
    /\ cycle = <<>>
    /\ srvAccess = 1
    /\ srvRefresh = 1
    /\ gen = 1
    /\ InitUpload

NextPlain ==
    \/ \E file \in TypedFiles : PlainSelect(file)
    \/ ResetUpload
    \/ TryAgain
    \/ PlainSplitClick
    \/ \E status \in {StatusOK, StatusServerError} : PlainXhrLoad(status)
    \/ PlainXhrError

SpecPlain == InitPlain /\ [][NextPlain]_vars

TypeOK ==
    /\ access \in {NoToken} \cup Tokens
    /\ refresh \in {NoToken} \cup Tokens
    /\ user \in {NoUser} \cup Plans
    /\ refreshing \in BOOLEAN
    /\ \A r \in Req : call[r].pc \in {"idle", "fetch1", "refresh", "rjson",
                                       "fetch2", "json", "done"}

\* ------------------------------------------------------------------ claims
\* calls whose refresh call (or the read of its answer) is outstanding
RefreshInFlight == {r \in Req : call[r].pc \in {"refresh", "rjson"}}

\* the call has come back from apiFetch (apiJSON may still read the body)
Back(r) == call[r].pc \in {"json", "done"}

\* the call got a 401 while a refresh credential was stored
Faulted(r) == call[r].follower \/ call[r].nref > 0

\* C1: single-flight: at most one refresh call is in flight in every state,
\* and a call that received its 401 while _refreshing was true (a follower)
\* has issued no refresh call.
C1_SingleFlight ==
    /\ Cardinality(RefreshInFlight) <= 1
    /\ \A r \in Req : call[r].follower => call[r].nref = 0

\* a second call has received its 401 while the first one's refresh is out
C1_Witness ==
    \E r, q \in Req :
        /\ call[r].pc = "refresh"
        /\ call[q].follower /\ call[q].first = StatusUnauth

\* C2: N requests sent with the same expired access credential, a valid
\* refresh credential stored: once all have ended, exactly one refresh call
\* was made and they all succeeded or all failed alike.  (Runs in which the
\* server or the network failed otherwise are left aside.)
C2_OneOutcome ==
    LET F == {r \in Req : Faulted(r)} IN
    ( /\ \A r \in Req : call[r].pc = "done"
      /\ F = Req
      /\ \A r, q \in F : call[r].tok1 = call[q].tok1
      /\ \A r \in Req : /\ call[r].kind = "raw"
                        /\ call[r].out = "response"
                        /\ call[r].res \in {StatusOK, StatusUnauth}
      /\ isLoggedIn )
    => /\ Len(cycle) = 1
       /\ \/ \A r \in F : call[r].res = StatusOK
          \/ \A r \in F : call[r].res = StatusUnauth

\* C3: a follower does not re-send its request while the refresh it met is
\* unresolved, and no follower replays with another credential than the one
\* the leader of that refresh replays with.
C3_FollowerWaits ==
    /\ \A r \in Req :
         (call[r].follower /\ call[r].pc = "fetch2")
             => cycle[call[r].cyc] # "pending"
    /\ \A r, q \in Req :
         ( /\ call[r].pc = "fetch2" /\ call[q].pc = "fetch2"
           /\ call[r].cyc = call[q].cyc )
             => call[r].hdr = call[q].hdr

\* C4: when a refresh fails, the requests that received their 401 while it
\* was in flight have not been re-sent.
C4_NoReplayOnFailure ==
    \A r \in Req :
        (call[r].follower /\ cycle[call[r].cyc] \in {"rejected", "threw"})
            => call[r].sends = 1

\* C5: no refresh loop: a call sends its request at most twice and issues at
\* most one refresh call, and a replay that came back (with 401 or anything
\* else) has ended the call's traffic.
C5_NoRefreshLoop ==
    \A r \in Req :
        /\ call[r].sends <= 2
        /\ call[r].nref <= 1
        /\ call[r].pc = "refresh" => call[r].sends = 1

\* a replay that was itself answered 401 has been handed to the caller
C5_Witness ==
    \E r \in Req :
        /\ Back(r) /\ call[r].sends = 2 /\ call[r].nref = 1
        /\ call[r].res = StatusUnauth

\* C6: the step in which the leader gets an error answer from the refresh
\* endpoint clears access, refresh and cached profile, redirects to the
\* login page once, and returns the original 401 without a replay.
C6_RefreshRejected ==
    [][\A r \in Req :
         ( /\ call[r].pc = "refresh"
           /\ call[r].cyc \in DOMAIN cycle'
           /\ cycle'[call[r].cyc] = "rejected" )
         => /\ access' = NoToken /\ refresh' = NoToken /\ user' = NoUser
            /\ location' = AuthPage
            /\ call'[r].redir = call[r].redir + 1
            /\ call'[r].redir = 1
            /\ Back(r)'
            /\ call'[r].res = StatusUnauth
            /\ call'[r].sends = 1]_vars

\* a leader has come back from a rejected refresh
C6_Witness ==
    \E r \in Req :
        /\ Back(r) /\ call[r].nref = 1 /\ call[r].redir = 1
        /\ cycle[call[r].cyc] = "rejected"

\* a 401 that came with no refresh credential stored is back at the caller
NoRefresh401(r) ==
    /\ Back(r) /\ call[r].first = StatusUnauth
    /\ ~Faulted(r)

\* C7 as stated: a 401 received when no refresh credential is stored ends
\* in the forced logout.
C7_Escalates ==
    \A r \in Req : NoRefresh401(r) => call[r].redir = 1

\* C7 amended: apiFetch hands such a 401 back as it is: one request, no
\* refresh call, no redirect and no change of the store by the gateway
\* (the caller may log out: init() does, the delete handler clears).
C7_HandedBack ==
    [][\A r \in Req :
         ( /\ call[r].pc = "fetch1" /\ getRefreshToken = NoToken
           /\ Back(r)' /\ call'[r].first = StatusUnauth )
         => /\ call'[r].redir = 0
            /\ call'[r].sends = 1 /\ call'[r].nref = 0
            /\ call'[r].res = StatusUnauth
            /\ UNCHANGED <<refreshing, cycle>>
            /\ call[r].kind # "delete" => UNCHANGED <<store, location>>]_vars

C7_Witness == \E r \in Req : NoRefresh401(r) /\ call[r].kind = "raw"

\* the leader's refresh call got no response and the call has ended
RefreshUnreachable(r) ==
    /\ call[r].pc = "done" /\ call[r].nref = 1
    /\ call[r].out = "neterror" /\ call[r].sends = 1

\* C8 as stated: an unreachable refresh endpoint ends like a rejected
\* refresh, in the forced logout.
C8_SameAsRejected ==
    \A r \in Req : RefreshUnreachable(r) => call[r].redir = 1

\* C8 amended: when the refresh fetch rejects, apiFetch clears the flag and
\* the waiter list and throws the network error; it does not touch the
\* stored credentials or profile and does not redirect (only a caller that
\* logs out on any failure, init(), does; the login handler moves on to the
\* dashboard).
C8_Propagates ==
    [][\A r \in Req :
         ( /\ call[r].pc = "refresh"
           /\ call[r].cyc \in DOMAIN cycle'
           /\ cycle'[call[r].cyc] = "threw" )
         => /\ call'[r].pc = "done" /\ call'[r].out = "neterror"
            /\ call'[r].redir = 0 /\ call'[r].sends = 1
            /\ ~refreshing' /\ refreshQueue' = <<>>
            /\ call[r].kind # "init" => UNCHANGED store
            /\ call[r].kind \notin {"init", "me"} => UNCHANGED location]_vars

C8_Witness ==
    \E r \in Req : RefreshUnreachable(r) /\ isLoggedIn /\ call[r].kind = "raw"

\* C9: the access and the refresh credential are stored together or absent
\* together in every state.
C9_PairAtomic == (access = NoToken) <=> (refresh = NoToken)

\* a refresh has replaced the pair after a logout had cleared it
C9_Witness ==
    /\ access # NoToken /\ access # 1
    /\ location = AuthPage
    /\ \E i \in 1..Len(cycle) : cycle[i] = "ok"

\* C10: a first response that is non-2xx and not 401 is not retried (one
\* request, no refresh call), and apiJSON ends by throwing a value with the
\* status and the server's detail or the default detail.
C10_TypedFailure ==
    \A r \in Req :
        (Back(r) /\ call[r].first = StatusServerError)
        => /\ call[r].sends = 1 /\ call[r].nref = 0
           /\ (call[r].pc = "done" /\ call[r].kind \in JsonKinds)
                => /\ call[r].out = "typed"
                   /\ call[r].errStatus = StatusServerError
                   /\ call[r].errDetail \in {"server detail", DefaultDetail}

\* C11: a request that gets no response at all comes back to the caller of
\* the gateway as a network error, which no response of the server produces
\* (a non-2xx response comes back as a response or as {status, detail});
\* that step issues no refresh call and leaves the credential pair as it
\* was (init(), a caller outside the gateway, answers any failure of its
\* own request with logout()).
C11_NoResponse ==
    [][\A r \in Req :
        /\ (FailFirst(r) \/ FailReplay(r))
              => /\ call'[r].out = "neterror"
                 /\ call'[r].nref = call[r].nref
                 /\ UNCHANGED <<refreshing, cycle>>
                 /\ call[r].kind # "init" => UNCHANGED <<access, refresh>>
        /\ (call'[r].out = "neterror" /\ call[r].out # "neterror")
              => (FailFirst(r) \/ FailReplay(r) \/ FailRefresh(r))]_vars

\* a signed-in caller's request has ended without any response
C11_Witness ==
    \E r \in Req : /\ call[r].pc = "done" /\ call[r].out = "neterror"
                   /\ call[r].first = 0 /\ call[r].nref = 0
                   /\ call[r].kind = "raw"
                   /\ access # NoToken /\ refresh # NoToken

\* C12: queue bound: in every reachable state fileQueue is no longer than
\* the capacity of the cached profile's plan tier.
C12_QueueBound == Len(fileQueue) <= maxFiles

\* the extension of a file name: what follows its last dot, in lower case;
\* a name without a dot has none
Extension(file) ==
    IF Len(file.name) < 2 THEN "" ELSE toLowerCase(file.name[Len(file.name)])

\* a file that enqueue validation has to reject
Rejectable(file) ==
    Extension(file) \notin {"mp4", "mov", "avi", "mkv"}
        \/ file.size > 500 * 1024 * 1024

\* C13: enqueue validation: of two files selected with room in the queue,
\* the ones whose extension is not mp4, mov, avi or mkv or whose size is
\* above 500 MiB are rejected and leave the queue as it was (same items,
\* same order); the others, a file of exactly 500 MiB among them, are
\* appended in order.
C13_Validation ==
    [][\A sel \in Probes :
        ( /\ Len(sel) = 2
          /\ maxFiles - Len(fileQueue) >= 2
          /\ (Change(sel, ValIds) \/ Drop(sel, ValIds)) )
        => LET old == Len(fileQueue)
               acc == SelectSeq(sel, LAMBDA f : ~Rejectable(f))
           IN /\ Len(fileQueue') = old + Len(acc)
              /\ SubSeq(fileQueue', 1, old) = fileQueue
              /\ \A id \in Range(fileQueue) : item'[id] = item[id]
              /\ \A k \in 1..Len(acc) :
                    item'[fileQueue'[old + k]].file = acc[k]]_vars

\* six valid files chosen at once
SixFiles == [k \in 1..6 |-> GoodFile]

C15_PerFile ==
    [][\A sel \in Selections({GoodFile, BadFile}, MaxSelect) :
        ( /\ Len(sel) > 1 /\ maxFiles > 1
          /\ Len(fileQueue) <= maxFiles
          /\ (Change(sel, MaxIds) \/ Drop(sel, MaxIds)) )
        => LET valid == SelectSeq(sel, LAMBDA f : ~Rejectable(f))
               room == maxFiles - Len(fileQueue)
           IN Len(fileQueue') = Len(fileQueue)
                  + (IF Len(valid) < room THEN Len(valid) ELSE room)]_vars

\* the position of x in q
Pos(q, x) == CHOOSE k \in DOMAIN q : q[k] = x

\* C16: removeFromQueue(id) on a QUEUED item shortens the queue by exactly
\* one, the item is gone, and every other item stays as it was and in the
\* same relative order; with an id that no item has the queue is unchanged.
C16_Remove ==
    [][\A id \in 0..MaxIds :
        RemoveFromQueue(id) =>
          IF id \in Range(fileQueue)
          THEN item[id].status = "queued" =>
                 /\ Len(fileQueue') = Len(fileQueue) - 1
                 /\ id \notin Range(fileQueue')
                 /\ \A a, b \in Range(fileQueue) \ {id} :
                      /\ a \in Range(fileQueue')
                      /\ item'[a] = item[a]
                      /\ (Pos(fileQueue, a) < Pos(fileQueue, b))
                            <=> (Pos(fileQueue', a) < Pos(fileQueue', b))
          ELSE fileQueue' = fileQueue /\ item' = item]_vars

\* the middle one of three queued items has been removed
C16_Witness ==
    /\ fileQueue = <<1, 3>>
    /\ nextId = 4
    /\ \A id \in Range(fileQueue) : item[id].status = "queued"

\* C17: removeFromQueue(id) on an item that is UPLOADING, DONE or FAILED
\* is a no-op: the item stays and the queue is unchanged.
C17_RemoveNoOp ==
    [][\A id \in 1..PipeIds :
        ( /\ RemoveFromQueue(id)
          /\ id \in Range(fileQueue)
          /\ item[id].status \in {"uploading", "done", "failed"} )
        => fileQueue' = fileQueue]_vars

\* C18: cancellation: an item removed by id while QUEUED, during a pipeline
\* run and before the pipeline has reached it, is never transported by that
\* run: it is still QUEUED whenever the run looks at it or has ended.
C18_Cancelled ==
    \A id \in cancelled : id \in DOMAIN item => item[id].status = "queued"

\* the items in transport
Uploading == {id \in DOMAIN item : item[id].status = "uploading"}

\* C19: strictly sequential processing in queue order: at most one item is
\* UPLOADING, it is the one the loop stands at, every item the loop has
\* passed is DONE or FAILED and no item further on is in transport.
C19_Sequential ==
    /\ Cardinality(Uploading) <= 1
    /\ \A id \in Uploading : run.pc \in {"fetch", "json"} /\ Current = id
    /\ run.pc # "idle" =>
         \A k \in DOMAIN RunArr :
            /\ k < run.idx => item[RunArr[k]].status \in {"done", "failed"}
            /\ k > run.idx => item[RunArr[k]].status # "uploading"

\* the second item is in transport, the first one has ended
C19_Witness ==
    /\ run.pc = "fetch" /\ run.idx = 2
    /\ item[RunArr[2]].status = "uploading"
    /\ item[RunArr[1]].status \in {"done", "failed"}

\* C20: per-item state machine: the status of an item changes only from
\* QUEUED to UPLOADING and from UPLOADING to DONE or FAILED; a DONE or
\* FAILED item keeps its status whatever happens next, further pipeline
\* runs on the same queue included.
C20_StateMachine ==
    [][\A id \in DOMAIN item \cap DOMAIN item' :
        item'[id].status # item[id].status =>
            \/ item[id].status = "queued" /\ item'[id].status = "uploading"
            \/ /\ item[id].status = "uploading"
               /\ item'[id].status \in {"done", "failed"}]_vars

\* C21: failure isolation: an upload that fails (no response, a non-2xx
\* response, a 401 left after the gateway's refresh handling, an unreadable
\* body) marks the item in transport FAILED and no other item; the loop of
\* processQueue does not end there: it stays in its delay and then takes
\* the next item of its array.
C21_Isolation ==
    [][/\ \A id \in DOMAIN item \cap DOMAIN item' :
            (item'[id].status = "failed" /\ item[id].status # "failed")
            => /\ item[id].status = "uploading" /\ id = Current
               /\ \A o \in (DOMAIN item \cap DOMAIN item') \ {id} :
                     item'[o] = item[o]
               /\ run'.pc = "delay" /\ run'.idx = run.idx
               /\ splitBtn'.disabled
       /\ ( /\ run.pc = "delay" /\ run'.pc # "delay" /\ page' = page
            /\ run.idx < Len(RunArr) )
          => /\ run'.pc = "fetch" /\ run'.idx = run.idx + 1
             /\ item'[RunArr[run.idx + 1]].status = "uploading"]_vars

\* the first item has failed and the second one has been uploaded
C21_Witness ==
    /\ run.pc = "delay" /\ run.idx = 2
    /\ item[RunArr[1]].status = "failed"
    /\ item[RunArr[2]].status = "done"

\* a processQueue run ends in this step
RunEnds == run.pc = "delay" /\ run'.pc = "idle" /\ page' = page

\* the DONE items of the queue; ids are handed out in insertion order
DoneInQueue == {id \in Range(fileQueue) : item[id].status = "done"}

\* C22: representative result: when a run ends and the queue holds a DONE
\* item, currentJobId and the results shown are those of the DONE item that
\* was enqueued first; with outcomes success, failure, success of three
\* items that is item 1.
C22_FirstSuccess ==
    [][(RunEnds /\ DoneInQueue # {}) =>
          LET first == CHOOSE id \in DoneInQueue :
                           \A o \in DoneInQueue : id <= o
          IN /\ currentJobId' = item[first].result
             /\ shown' = "results"]_vars

\* a run of three items has ended [DONE, FAILED, DONE] and shows item 1
C22_Witness ==
    /\ run.pc = "idle" /\ run.n = 1
    /\ fileQueue = <<1, 2, 3>>
    /\ item[1].status = "done" /\ item[2].status = "failed"
    /\ item[3].status = "done"
    /\ currentJobId = item[1].result /\ currentJobId # item[3].result
    /\ shown = "results"

\* C23: aggregate outcome: a run that ends reports overall failure exactly
\* when none of the items it uploaded succeeded, and shows results whenever
\* one did, also when items were removed or the queue was cleared meanwhile.
C23_Aggregate ==
    [][RunEnds => /\ (shown' = "error") <=> (run.done = 0)
                  /\ run.done > 0 => shown' = "results"]_vars

\* C24: every item that is FAILED carries a stored failure reason (a field
\* of the item next to id, file, status and result) that tells the kind of
\* failure.
C24_Reason ==
    \A id \in DOMAIN item :
        item[id].status = "failed" => "reason" \in DOMAIN item[id]

\* the upload request of the pipeline is out (any of apiFetch's fetches)
UploadInFlight ==
    /\ call[UploadSlot].kind = "upload"
    /\ call[UploadSlot].pc \in {"fetch1", "refresh", "rjson", "fetch2"}

\* the page shows every item of the queue with the status it has
RenderedInSync ==
    /\ Len(rendered) = Len(fileQueue)
    /\ \A k \in DOMAIN rendered :
          /\ rendered[k].id = fileQueue[k]
          /\ rendered[k].status = item[fileQueue[k]].status

\* C25: progress ordering: while the request of an item is out the item is
\* UPLOADING and the rendered queue already shows it so, and every item the
\* loop took before it is DONE or FAILED and shown so: the terminal status
\* of item i is on the page before the UPLOADING of item i+1 is.
C25_Ordering ==
    /\ RenderedInSync
    /\ UploadInFlight => run.pc = "fetch"
    /\ run.pc \in {"fetch", "json"} => item[Current].status = "uploading"
    /\ run.pc # "idle" =>
         \A k \in DOMAIN RunArr :
            k < run.idx => item[RunArr[k]].status \in {"done", "failed"}

\* the page shows the second item uploading and the first one ended
C25_Witness ==
    /\ UploadInFlight /\ run.idx = 2
    /\ Len(rendered) = 2
    /\ rendered[1].status \in {"done", "failed"}
    /\ rendered[2].status = "uploading"

\* the items of the run that have ended: all before the current one, and
\* the current one too once its status is written (the loop is in its wait)
Ended == IF run.pc = "delay" THEN run.idx ELSE run.idx - 1

\* C26: progress counts: the text of a running run carries as processed
\* count the number of items of the run that are DONE or FAILED so far, and
\* the processed count is at most the total the text carries.
C26_Counts ==
    (run.pc # "idle" /\ splitBtn.text # <<>>) =>
        /\ splitBtn.text[1] = Ended
        /\ splitBtn.text[1] <= splitBtn.text[2]

\* what renderQueue draws of the queue q with item heap it, row by row
Snapshot(q, it) ==
    /\ Len(rendered) = Len(q)
    /\ \A k \in DOMAIN rendered :
          rendered[k] = [id |-> q[k], file |-> it[q[k]].file,
                         status |-> it[q[k]].status]

C29_SingleReplay ==
    [][(XhrLoad(StatusUnauth) /\ getRefreshToken # NoToken)
        => /\ shown' # "error"
           /\ \E r \in Req : call'[r].pc = "refresh"]_vars

\* enqueue accepts the file into an empty queue
EnqueueAccepts(file) ==
    addToQueue([q |-> <<>>, it |-> <<>>, n |-> 1], file).q # <<>>

\* C28: the single-file upload accepts a file exactly when enqueue would
\* accept it into an empty queue: a file handed to the single-file handler
\* is taken (no error shown) if and only if its extension is on the
\* allow-list and its size is at most 500 MiB.
C28_SameValidation ==
    [][\A file \in TypedFiles :
          PlainSelect(file) => ((shown' # "error") <=> EnqueueAccepts(file))]_vars

\* C30: refresh flag lifecycle: _refreshing is true exactly while a refresh
\* call (its body read included) is in flight; once the last refresh cycle
\* has ended, by success, by an error response or by a thrown error, the
\* flag is false and the waiter list is empty, so a later 401 can lead a
\* new cycle.
C30_RefreshFlag ==
    /\ refreshing <=> (RefreshInFlight # {})
    /\ (cycle # <<>> /\ cycle[Len(cycle)] # "pending")
         => (~refreshing /\ refreshQueue = <<>>)
    /\ ~refreshing => refreshQueue = <<>>

\* a refresh cycle has ended with a thrown error and a later 401 has begun
\* the next one
C30_Witness ==
    /\ Len(cycle) >= 2
    /\ cycle[1] = "threw"
    /\ cycle[Len(cycle)] = "pending"
    /\ refreshing

\* C31: the step that ends a refresh with success stores the pair the
\* refresh endpoint returned, and the leader's replay goes out in that step
\* with the new access credential as bearer token, not with the one that
\* was answered 401.
C31_NewPair ==
    [][\A r \in Req :
         ( /\ call[r].pc = "rjson"
           /\ call[r].cyc \in DOMAIN cycle'
           /\ cycle'[call[r].cyc] = "ok" )
         => /\ access' = call[r].data /\ refresh' = call[r].data
            /\ call'[r].pc = "fetch2"
            /\ call'[r].hdr = call[r].data
            /\ call'[r].hdr # call[r].tok1
            /\ call'[r].sends = 2]_vars

\* the leader's replay is out with the credential the refresh has stored
C31_Witness ==
    \E r \in Req :
        /\ call[r].pc = "fetch2" /\ call[r].nref = 1
        /\ cycle[call[r].cyc] = "ok"
        /\ call[r].hdr = access /\ access = refresh
        /\ call[r].hdr # call[r].tok1

\* C32: a pipeline run terminates: with every transport call answered or
\* failed, a run that has begun comes to its end (or the page is left), and
\* the step that ends it leaves every item of the run DONE or FAILED and
\* the split button enabled.
C32_Terminates ==
    /\ (run.pc # "idle") ~> (run.pc = "idle")
    /\ [][(run.pc # "idle" /\ run'.pc = "idle" /\ page' = page)
           => /\ \A id \in Range(RunArr) :
                    item[id].status \in {"done", "failed"}
              /\ \A id \in DOMAIN item' : item'[id].status # "uploading"
              /\ ~splitBtn'.disabled]_vars

\* a run of two items has ended on the page it began on
C32_Witness ==
    /\ run.pc = "idle" /\ run.n = 1
    /\ page = AppPage
    /\ Len(fileQueue) = 2
    /\ \A k \in 1..2 : item[fileQueue[k]].status \in {"done", "failed"}
    /\ ~splitBtn.disabled

\* the refresh routine of call r ends in this step (lines 355-366)
RefreshEnds(r) ==
    /\ call[r].pc \in {"refresh", "rjson"}
    /\ call'[r].pc \notin {"refresh", "rjson"}

\* a caller of the gateway writes the store in this step, after apiFetch or
\* apiJSON has come back to it (logout, login, account deletion, init)
CallerWrites ==
    \/ \E r \in Req :
          /\ call[r].kind \in {"init", "delete", "login", "me"}
          /\ call[r].pc # "idle"
          /\ call'[r].pc \in {"done", "fetch1"}
          /\ call'[r] # call[r]
    \/ call' = call

\* C33: the step that brings a first response other than 401 to apiFetch
\* makes no refresh call and leaves the refresh flag, the credential pair
\* and the cached profile as they were (what the caller does with the
\* response aside); and whenever the pair changes while the page is up,
\* either a refresh routine has ended in that step or a caller of the
\* gateway has written it.
C33_Frame ==
    [][/\ \A r \in Req :
            ( /\ call[r].pc = "fetch1" /\ call'[r].pc # "fetch1"
              /\ call'[r].first \in {StatusOK, StatusServerError}
              /\ page' = page )
            => /\ call'[r].nref = 0 /\ call'[r].sends = 1
               /\ UNCHANGED <<refreshing, refreshQueue, cycle>>
               /\ call[r].kind # "delete" => UNCHANGED store
       /\ (<<access, refresh>>' # <<access, refresh>>)
            => (CallerWrites \/ \E r \in Req : RefreshEnds(r))]_vars

\* a server error came back while a refresh credential was stored
C33_Witness ==
    \E r \in Req :
        /\ Back(r) /\ call[r].first = StatusServerError
        /\ call[r].kind = "raw"
        /\ getRefreshToken # NoToken /\ ~refreshing

\* processQueue runs on in this step: it begins, takes a response or a
\* body, or comes out of its wait
PipelineStep ==
    /\ page' = page
    /\ run'.pc # run.pc \/ run'.idx # run.idx

\* C34: a pipeline run does not add, remove or reorder queue items: a step
\* of processQueue leaves the queue and the file of every item as they
\* were, and when the run ends every item it has processed is in the queue
\* with its terminal status.
C34_RunFrame ==
    [][/\ PipelineStep =>
            /\ fileQueue' = fileQueue
            /\ \A id \in DOMAIN item \cap DOMAIN item' :
                  item'[id].file = item[id].file
       /\ RunEnds =>
            \A id \in Range(RunArr) :
               /\ id \in Range(fileQueue')
               /\ item'[id].status \in {"done", "failed"}]_vars

\* C35: the waiter list _refreshQueue is empty in every state, and the step
\* that ends the refresh routine of one call changes no other call: no
\* request is resumed by the completion of another request's refresh.
C35_NoWaiters ==
    [][/\ refreshQueue = <<>> /\ refreshQueue' = <<>>
       /\ \A r \in Req :
            (RefreshEnds(r) /\ page' = page)
            => \A q \in Req \ {r} : call'[q] = call[q]]_vars

\* the leader's refresh has succeeded while a follower, which nothing has
\* resumed, is still out with the credential that was answered 401
C35_Witness ==
    \E r, q \in Req :
        /\ r # q
        /\ call[r].nref = 1 /\ cycle[call[r].cyc] = "ok"
        /\ call[q].follower /\ call[q].pc = "fetch2"
        /\ call[q].hdr # access

\* the call is inside apiFetch, at one of its awaits
InApiFetch(r) == call[r].pc # "idle" /\ ~Back(r)

\* C36: with every network call answered or failed, every apiFetch call
\* comes to its end: it returns a response or throws (or its page is
\* left); no call stays suspended on a refresh, its own or another call's.
C36_Returns ==
    \A r \in Req : InApiFetch(r) ~> ~InApiFetch(r)

\* a follower has come back from apiFetch while the leader's refresh call
\* is still out
C36_Witness ==
    \E r, q \in Req :
        /\ call[r].pc = "refresh"
        /\ call[q].follower /\ Back(q)

\* the credential pair is not stored
PairCleared == getToken = NoToken /\ getRefreshToken = NoToken

\* C37: while the credential pair is cleared (a failed refresh has cleared
\* it and nothing has stored credentials again) no refresh call is issued,
\* a request sent carries no bearer token, and a 401 that arrives is
\* returned to its caller as it is, without a replay or a redirect.
C37_AfterFailedRefresh ==
    [][(PairCleared /\ PairCleared' /\ page' = page) =>
         \A r \in Req :
            /\ call'[r].nref = call[r].nref
            /\ call'[r].sends > call[r].sends => call'[r].hdr = NoToken
            /\ ( /\ call[r].pc = "fetch1" /\ call'[r].pc # "fetch1"
                 /\ call'[r].first = StatusUnauth )
               => /\ Back(r)'
                  /\ call'[r].res = StatusUnauth
                  /\ call'[r].sends = 1
                  /\ call'[r].redir = call[r].redir
                  /\ UNCHANGED <<refreshing, cycle>>]_vars

\* after a rejected refresh has cleared the pair, a request sent without
\* bearer token has had its 401 handed back
C37_Witness ==
    /\ PairCleared
    /\ \E i \in DOMAIN cycle : cycle[i] = "rejected"
    /\ \E r \in Req :
          /\ Back(r) /\ call[r].tok1 = NoToken
          /\ call[r].first = StatusUnauth /\ call[r].sends = 1
          /\ call[r].nref = 0

\* C38: no two pipeline runs overlap: while processQueue is running the
\* split button is disabled, a run begins only when none is in progress,
\* and no single-file upload is sent during a run.
C38_NoOverlap ==
    [][/\ run.pc # "idle" => splitBtn.disabled
       /\ (run'.n # run.n /\ page' = page) => run.pc = "idle"
       /\ (xhr'.pc = "sent" /\ xhr.pc # "sent") => run.pc = "idle"]_vars

\* during a run the queue has been cleared and a single file chosen: the
\* split button is shown, and disabled
C38_Witness ==
    /\ run.pc # "idle"
    /\ fileQueue = <<>> /\ selectedFile # NoFile
    /\ splitBtn.display /\ splitBtn.disabled

\* C39: when the queue is already as long as, or longer than, the capacity
\* of the cached plan tier (the capacity may have dropped under the queue
\* length), a selection or drop of several files adds no file to the queue.
C39_FullQueue ==
    [][\A sel \in Selections({GoodFile}, CapSelect) :
        ( /\ Len(sel) > 1
          /\ Len(fileQueue) >= maxFiles
          /\ (Change(sel, CapIds) \/ Drop(sel, CapIds)) )
        => fileQueue' = fileQueue]_vars

\* C40: in every state every DONE item carries the result of its upload,
\* and a page that shows results has the job identifier of the result it
\* shows.
C40_DoneHasResult ==
    /\ \A id \in DOMAIN item :
          item[id].status = "done" => item[id].result # NoJob
    /\ shown = "results" => currentJobId # NoJob

\* a run over one item has ended and shows the job of that item
C40_Witness ==
    /\ run.pc = "idle" /\ run.n = 1
    /\ Len(fileQueue) = 1
    /\ item[fileQueue[1]].status = "done"
    /\ shown = "results"
    /\ currentJobId = item[fileQueue[1]].result
====
